---- MODULE Spec2Model ----
(***************************************************************************)
(* A model of the matchable rule-matching engine: the condition model      *)
(* (src/src/matchable/match.py), the condition store Options, the wrappers *)
(* and the Spec facade with its process-wide registry WRAPPER_TYPES        *)
(* (src/src/matchable/spec.py).                                            *)
(*                                                                         *)
(* Python values are records carrying their runtime type in the field tp.  *)
(* Atoms (dict keys and values, set and list elements, attribute values,   *)
(* reference values) are integers; the characters of a str are integers    *)
(* too (code points, chosen >= 100 so that no character equals a number).  *)
(* Attribute names are strings.                                            *)
(***************************************************************************)
EXTENDS Integers, Sequences, FiniteSets, TLC

VARIABLES options, registry, out

vars == <<options, registry, out>>

(***************************************************************************)
(* Types and their method resolution order, most specific first.           *)
(* A and B(A) are the classes of tests/conftest.py; Concat is the custom   *)
(* wrapper of tests/test_spec.py.                                          *)
(***************************************************************************)
Types ==
    {"object", "type", "function", "NoneType", "int", "list", "str", "dict", "set",
     "A", "B", "Wrapper", "LastSeenWins", "CopyUpdate", "Concat"}

mro(tp) ==
    CASE tp = "object" -> <<"object">>
      [] tp = "B" -> <<"B", "A", "object">>
      [] tp \in {"LastSeenWins", "CopyUpdate", "Concat"} -> <<tp, "Wrapper", "object">>
      [] OTHER -> <<tp, "object">>

MroSet(tp) == {mro(tp)[i] : i \in 1..Len(mro(tp))}

Reverse(s) == [i \in 1..Len(s) |-> s[Len(s) + 1 - i]]

\* a slip in the walk: the MRO taken as it is, most specific type first
AncestryNotReversed(tp) == mro(tp)

\* reversed(type.mro(type(obj))): most general type first
Ancestry(tp) == Reverse(mro(tp))

(***************************************************************************)
(* Python values.                                                          *)
(***************************************************************************)
None == [tp |-> "NoneType"]
PyInt(n) == [tp |-> "int", num |-> n]
PyDict(m) == [tp |-> "dict", map |-> m]
PySet(s) == [tp |-> "set", elems |-> s]
PyList(l) == [tp |-> "list", seq |-> l]
PyStr(l) == [tp |-> "str", seq |-> l]
Instance(cls, attrs) == [tp |-> cls, attrs |-> attrs]
Class(name) == [tp |-> "type", name |-> name]
Identity == [tp |-> "function", name |-> "identity"]

\* Wrapper.__init__: self.obj = obj
Wrap(w, v) == [tp |-> w, obj |-> v]

\* isinstance(v, Wrapper)
IsWrapper(v) == "Wrapper" \in MroSet(v.tp)

Keys(m) == {p[1] : p \in m}
Lookup(m, k) == (CHOOSE p \in m : p[1] = k)[2]
Range(s) == {s[i] : i \in 1..Len(s)}

\* class A: a: int = 0      class B(A): b: int = 0
ClassAttrs(cls) ==
    CASE cls = "A" -> {<<"a", 0>>}
      [] cls = "B" -> {<<"b", 0>>}
      [] OTHER -> {}

(***************************************************************************)
(* Outcomes of an evaluation: exc is "none" and val the value, or exc      *)
(* names the exception raised.  NotImplemented, the sentinel a binary      *)
(* special method returns to decline, is the outcome exc "NotImplemented". *)
(***************************************************************************)
Ok(v) == [exc |-> "none", val |-> v]
Raise(e) == [exc |-> e, val |-> None]
NotImplemented == [exc |-> "NotImplemented", val |-> None]

(***************************************************************************)
(* Conditions.  kind is the class of the condition; a Comparison carries   *)
(* its identifier as name (CompareAttr) or key (CompareItem).              *)
(***************************************************************************)
IsInstance(tp) ==
    [kind |-> "IsInstance", type |-> tp, name |-> "", key |-> 0, op |-> "", ref |-> 0]
CompareAttr(tp, name, op, ref) ==
    [kind |-> "CompareAttr", type |-> tp, name |-> name, key |-> 0, op |-> op, ref |-> ref]
CompareItem(tp, key, op, ref) ==
    [kind |-> "CompareItem", type |-> tp, name |-> "", key |-> key, op |-> op, ref |-> ref]

IsComparison(c) == c.kind \in {"CompareAttr", "CompareItem"}

\* Comparison.__eq__ and IsInstance.__eq__
CondEq(c, d) ==
    IF c.kind = "IsInstance"
    THEN c.kind = d.kind /\ c.type = d.type
    ELSE c.kind = d.kind
         /\ <<c.type, c.name, c.key, c.op, c.ref>> = <<d.type, d.name, d.key, d.op, d.ref>>

\* a slip in IsInstance.__lt__: a type condition is not below a comparison
IsInstanceLtNotBelowComparison(c, d) ==
    IF c.kind = d.kind THEN c.type \in MroSet(d.type) ELSE FALSE

\* a slip in IsInstance.__lt__: the MRO test the wrong way round
IsInstanceLtDescendantFirst(c, d) ==
    IF c.kind = d.kind THEN d.type \in MroSet(c.type) ELSE TRUE

\* IsInstance.__lt__
IsInstanceLt(c, d) ==
    IF c.kind = d.kind THEN c.type \in MroSet(d.type) ELSE TRUE

\* a slip in Comparison.__lt__: a comparison is below every comparison
ComparisonLtBelowPeers(c, d) ==
    IF IsComparison(c) /\ IsComparison(d) THEN "True" ELSE "NotImplemented"

\* Comparison.__lt__: "NotImplemented" against anything but a Comparison
ComparisonLt(c, d) ==
    IF IsComparison(c) /\ IsComparison(d) THEN "False" ELSE "NotImplemented"

\* c < d as Python evaluates it: c.__lt__(d), and on NotImplemented the
\* reflected d.__gt__(c), which functools.total_ordering derives from d.__lt__
\* as  not d.__lt__(c) and d != c.
Lt(c, d) ==
    IF c.kind = "IsInstance"
    THEN IsInstanceLt(c, d)
    ELSE IF ComparisonLt(c, d) # "NotImplemented"
         THEN ComparisonLt(c, d) = "True"
         ELSE ~IsInstanceLt(d, c) /\ ~CondEq(d, c)

\* operator.lt .. operator.gt on integers
ApplyOp(op, x, y) ==
    CASE op = "lt" -> x < y
      [] op = "le" -> x <= y
      [] op = "eq" -> x = y
      [] op = "ne" -> x # y
      [] op = "ge" -> x >= y
      [] op = "gt" -> x > y

\* getattr(obj, name): the instance's attribute, else the class attribute
\* found along the MRO, else AttributeError
GetAttr(obj, name) ==
    LET inst == IF obj.tp \in {"object", "A", "B"} THEN obj.attrs ELSE {}
        cls == UNION {ClassAttrs(t) : t \in MroSet(obj.tp)}
    IN  IF name \in Keys(inst) THEN Ok(Lookup(inst, name))
        ELSE IF name \in Keys(cls) THEN Ok(Lookup(cls, name))
        ELSE Raise("AttributeError")

\* obj[key]: KeyError from a dict, IndexError from a sequence, TypeError from
\* an object that has no __getitem__
GetItem(obj, key) ==
    CASE obj.tp = "dict" ->
            IF key \in Keys(obj.map) THEN Ok(Lookup(obj.map, key)) ELSE Raise("KeyError")
      [] obj.tp \in {"list", "str"} ->
            IF key >= 0 /\ key < Len(obj.seq) THEN Ok(obj.seq[key + 1])
            ELSE IF key < 0 /\ -key <= Len(obj.seq) THEN Ok(obj.seq[Len(obj.seq) + key + 1])
            ELSE Raise("IndexError")
      [] OTHER -> Raise("TypeError")

\* CompareAttr.retrieve / CompareItem.retrieve
Retrieve(c, obj) ==
    IF c.kind = "CompareAttr" THEN GetAttr(obj, c.name) ELSE GetItem(obj, c.key)

\* Comparison.match: only AttributeError and LookupError (KeyError,
\* IndexError) are caught
ComparisonMatch(c, obj) ==
    LET r == Retrieve(c, obj)
    IN  IF r.exc = "none" THEN Ok(ApplyOp(c.op, r.val, c.ref))
        ELSE IF r.exc \in {"AttributeError", "KeyError", "IndexError"} THEN Ok(FALSE)
        ELSE Raise(r.exc)

\* IsInstance.match
IsInstanceMatch(c, obj) == Ok(c.type \in MroSet(obj.tp))

\* cond.match(obj)
CondMatch(c, obj) ==
    IF c.kind = "IsInstance" THEN IsInstanceMatch(c, obj) ELSE ComparisonMatch(c, obj)

(***************************************************************************)
(* list.sort / sorted with key=itemgetter(0), as CPython sorts a list of   *)
(* fewer than 64 elements: the leading run is found (a strictly descending *)
(* one is reversed) and the rest is added by binary insertion.  Only "<"   *)
(* on the conditions is used.  Entries are records [cond, val].            *)
(***************************************************************************)
RECURSIVE RunEnd(_, _, _)
RunEnd(s, i, desc) ==
    IF i >= Len(s) THEN i
    ELSE IF Lt(s[i + 1].cond, s[i].cond) = desc THEN RunEnd(s, i + 1, desc)
    ELSE i

RECURSIVE BinarySearch(_, _, _, _)
BinarySearch(s, pivot, l, r) ==
    IF l >= r THEN l
    ELSE LET p == l + ((r - l) \div 2)
         IN  IF Lt(pivot.cond, s[p].cond)
             THEN BinarySearch(s, pivot, l, p)
             ELSE BinarySearch(s, pivot, p + 1, r)

InsertAt(s, k, e) == SubSeq(s, 1, k - 1) \o <<e>> \o SubSeq(s, k, Len(s))

RECURSIVE BinaryInsertion(_, _)
BinaryInsertion(sorted, rest) ==
    IF rest = <<>> THEN sorted
    ELSE BinaryInsertion(
            InsertAt(sorted, BinarySearch(sorted, Head(rest), 1, Len(sorted) + 1), Head(rest)),
            Tail(rest))

ListSort(s) ==
    IF Len(s) < 2 THEN s
    ELSE LET desc == Lt(s[2].cond, s[1].cond)
             n == RunEnd(s, 2, desc)
             run == IF desc THEN Reverse(SubSeq(s, 1, n)) ELSE SubSeq(s, 1, n)
         IN  BinaryInsertion(run, SubSeq(s, n + 1, Len(s)))

(***************************************************************************)
(* Wrappers and the combination  lhs | rhs.                                *)
(***************************************************************************)
\* dict.update(other) on a copy: merges a mapping, accepts an empty iterable,
\* fails (ValueError or TypeError) on anything else
DictUpdate(m, other) ==
    CASE other.tp = "dict" -> Ok(PyDict({p \in m : p[1] \notin Keys(other.map)} \cup other.map))
      [] other.tp = "set" -> IF other.elems = {} THEN Ok(PyDict(m)) ELSE Raise("TypeError")
      [] other.tp = "list" -> IF other.seq = <<>> THEN Ok(PyDict(m)) ELSE Raise("TypeError")
      [] other.tp = "str" -> IF other.seq = <<>> THEN Ok(PyDict(m)) ELSE Raise("ValueError")
      [] OTHER -> Raise("TypeError")

\* set.update(other) on a copy: adds the elements of any iterable (the keys
\* of a dict, the characters of a str)
SetUpdate(s, other) ==
    CASE other.tp = "dict" -> Ok(PySet(s \cup Keys(other.map)))
      [] other.tp = "set" -> Ok(PySet(s \cup other.elems))
      [] other.tp \in {"list", "str"} -> Ok(PySet(s \cup Range(other.seq)))
      [] OTHER -> Raise("TypeError")

\* CopyUpdate.__or__: NotImplemented when update raised ValueError or
\* TypeError; a wrapped object without copy/update raises AttributeError
CopyUpdateOr(self, rhs) ==
    LET other == IF IsWrapper(rhs) THEN rhs.obj ELSE rhs
        new == CASE self.obj.tp = "dict" -> DictUpdate(self.obj.map, other)
                 [] self.obj.tp = "set" -> SetUpdate(self.obj.elems, other)
                 [] OTHER -> Raise("AttributeError")
    IN  IF new.exc \in {"ValueError", "TypeError"} THEN NotImplemented
        ELSE IF new.exc # "none" THEN new
        ELSE Ok(Wrap(self.tp, new.val))

\* LastSeenWins.__or__
LastSeenWinsOr(self, rhs) == Ok(rhs)

\* a slip in LastSeenWins.__ror__: the l.h.s. is kept
LastSeenWinsRorKeepsLeft(self, lhs) == Ok(lhs)

\* LastSeenWins.__ror__
LastSeenWinsRor(self, lhs) == Ok(self)

\* Concat.__or__ (tests/test_spec.py): type(self)(self.obj + other.obj)
ConcatOr(self, rhs) ==
    IF ~IsWrapper(rhs) THEN Raise("AttributeError")
    ELSE IF self.obj.tp = "list" /\ rhs.obj.tp = "list"
         THEN Ok(Wrap(self.tp, PyList(self.obj.seq \o rhs.obj.seq)))
    ELSE Raise("TypeError")

\* operator.or_(lhs, rhs): lhs.__or__(rhs); when that is missing or returns
\* NotImplemented and the operands' types differ, rhs.__ror__(lhs); else
\* TypeError.  Wrapper itself and the unwrapped values define no __or__ here.
Or(lhs, rhs) ==
    LET first == CASE lhs.tp = "CopyUpdate" -> CopyUpdateOr(lhs, rhs)
                   [] lhs.tp = "LastSeenWins" -> LastSeenWinsOr(lhs, rhs)
                   [] lhs.tp = "Concat" -> ConcatOr(lhs, rhs)
                   [] OTHER -> NotImplemented
    IN  IF first.exc # "NotImplemented" THEN first
        ELSE IF rhs.tp = "LastSeenWins" /\ lhs.tp # rhs.tp THEN LastSeenWinsRor(rhs, lhs)
        ELSE Raise("TypeError")

\* functools.reduce(operator.or_, vals) on a non-empty sequence of entries
RECURSIVE Reduce(_, _)
Reduce(acc, rest) ==
    IF rest = <<>> THEN Ok(acc)
    ELSE LET r == Or(acc, Head(rest).val)
         IN  IF r.exc # "none" THEN r ELSE Reduce(r.val, Tail(rest))

(***************************************************************************)
(* What the fold writes.  The values are objects: the accumulated value of *)
(* reduce can be a stored wrapper itself (the first one, or the r.h.s.     *)
(* that LastSeenWins hands on), so an operator that updated its l.h.s. in  *)
(* place would write into the store.  src is the position in the folded    *)
(* sequence of the entry whose object the accumulated value holds, 0 when  *)
(* it holds an object of its own.                                          *)
(***************************************************************************)
\* a slip in CopyUpdate.__or__: new = self.obj, update() writes self.obj
ObjAfterOrNoCopy(lhs, rhs) ==
    IF lhs.tp = "CopyUpdate" /\ CopyUpdateOr(lhs, rhs).exc = "none"
    THEN CopyUpdateOr(lhs, rhs).val.obj
    ELSE lhs.obj

\* lhs.obj after lhs | rhs: CopyUpdate.__or__ updates new = self.obj.copy(),
\* LastSeenWins returns an operand, Concat builds self.obj + other.obj
ObjAfterOr(lhs, rhs) == lhs.obj

\* the entry whose object the result of lhs | rhs holds: the r.h.s. entry k
\* when an operand is handed on (LastSeenWins.__or__, LastSeenWins.__ror__),
\* none when the result is built (a copy, a concatenation)
SrcAfterOr(lhs, rhs, k) ==
    CASE lhs.tp = "LastSeenWins" -> k
      [] lhs.tp = "CopyUpdate" -> IF CopyUpdateOr(lhs, rhs).exc = "NotImplemented" THEN k ELSE 0
      [] OTHER -> 0

WriteObj(order, src, obj) == IF src = 0 THEN order ELSE [order EXCEPT ![src].val.obj = obj]

\* the folded entries as reduce leaves them: acc is the accumulated value
\* before entry k is combined
RECURSIVE FoldWrites(_, _, _, _)
FoldWrites(order, acc, src, k) ==
    IF k > Len(order) THEN order
    ELSE IF Or(acc, order[k].val).exc # "none"
         THEN WriteObj(order, src, ObjAfterOr(acc, order[k].val))
         ELSE FoldWrites(WriteObj(order, src, ObjAfterOr(acc, order[k].val)),
                         Or(acc, order[k].val).val, SrcAfterOr(acc, order[k].val, k), k + 1)

\* Spec.unwrap
unwrap(value) == IF IsWrapper(value) THEN value.obj ELSE value

(***************************************************************************)
(* Options: the condition store.  _types maps a type to a dict from        *)
(* condition to value; a dict is the sequence of its entries [cond, val]   *)
(* in insertion order.  A type without a bucket and a type with an empty   *)
(* bucket (the defaultdict creates one on every access) hold the same      *)
(* entries and are the same store here.                                    *)
(***************************************************************************)
EmptyOptions == [tp \in Types |-> <<>>]

\* position of the key equal to cond in a bucket, 0 when absent
IndexOf(bucket, cond) ==
    IF \E i \in 1..Len(bucket) : CondEq(bucket[i].cond, cond)
    THEN CHOOSE i \in 1..Len(bucket) : CondEq(bucket[i].cond, cond)
    ELSE 0

\* condition in options
Contains(opts, cond) == IndexOf(opts[cond.type], cond) # 0

\* Options.__getitem__
OptionsGet(opts, cond) ==
    IF Contains(opts, cond)
    THEN Ok(opts[cond.type][IndexOf(opts[cond.type], cond)].val)
    ELSE Raise("KeyError")

\* a slip in Options.__setitem__: the entry is added without looking for an
\* equal key
OptionsSetAppend(opts, cond, value) ==
    [opts EXCEPT ![cond.type] = Append(opts[cond.type], [cond |-> cond, val |-> value])]

\* Options.__setitem__: an equal key keeps its place (and the stored key
\* object) and takes the new value, a new key goes to the end of its bucket
OptionsSet(opts, cond, value) ==
    LET bucket == opts[cond.type]
        i == IndexOf(bucket, cond)
    IN  [opts EXCEPT ![cond.type] =
            IF i = 0 THEN Append(bucket, [cond |-> cond, val |-> value])
            ELSE [bucket EXCEPT ![i].val = value]]

\* a slip in Options.__delitem__: the whole bucket of the type is dropped
OptionsDelBucket(opts, cond) == [opts EXCEPT ![cond.type] = <<>>]

\* Options.__delitem__ (of a stored condition)
OptionsDel(opts, cond) ==
    LET bucket == opts[cond.type]
        i == IndexOf(bucket, cond)
    IN  [opts EXCEPT ![cond.type] = SubSeq(bucket, 1, i - 1) \o SubSeq(bucket, i + 1, Len(bucket))]

\* the store with the folded entries as the fold left them
RECURSIVE WriteBack(_, _)
WriteBack(opts, entries) ==
    IF entries = <<>> THEN opts
    ELSE WriteBack([opts EXCEPT ![Head(entries).cond.type] =
                        [e \in DOMAIN @ |->
                            IF CondEq(@[e].cond, Head(entries).cond) THEN Head(entries) ELSE @[e]]],
                   Tail(entries))

\* the store after Options.match folded order
StoreAfterFold(opts, order) ==
    IF order = <<>> THEN opts
    ELSE WriteBack(opts, FoldWrites(order, order[1].val, 1, 2))

RECURSIVE SumLen(_, _)
SumLen(opts, S) ==
    IF S = {} THEN 0
    ELSE LET tp == CHOOSE t \in S : TRUE IN Len(opts[tp]) + SumLen(opts, S \ {tp})

\* Options.__len__: sum(map(len, self._types.values()))
OptionsLen(opts) == SumLen(opts, Types)

\* Options.__iter__ as a set: every stored entry
Entries(opts) == UNION {Range(opts[tp]) : tp \in Types}

\* tp_options of one level: the entries of the bucket that match, in
\* insertion order, sorted when typewise
SortIf(flag, s) == IF flag THEN ListSort(s) ELSE s

LevelOptions(opts, tp, obj, typewise) ==
    SortIf(typewise, SelectSeq(opts[tp], LAMBDA e : CondMatch(e.cond, obj).val))

RECURSIVE Collect(_, _, _, _)
Collect(opts, levels, obj, typewise) ==
    IF levels = <<>> THEN <<>>
    ELSE LevelOptions(opts, Head(levels), obj, typewise)
         \o Collect(opts, Tail(levels), obj, typewise)

\* the exceptions cond.match(obj) raises on the walk over the ancestry
MatchRaises(opts, obj) ==
    {CondMatch(e.cond, obj).exc : e \in UNION {Range(opts[tp]) : tp \in MroSet(obj.tp)}}
        \ {"none"}

\* the end of Options.match: NoMatchError without options, else the fold;
\* order is the sequence of entries that were folded
FoldTrace(ordered) ==
    IF ordered = <<>>
    THEN [res |-> Raise("NoMatchError"), order |-> <<>>]
    ELSE [res |-> Reduce(Head(ordered).val, Tail(ordered)), order |-> ordered]

RaiseTrace(excs) == [res |-> Raise(CHOOSE e \in excs : TRUE), order |-> <<>>]

\* Options.match: outcome and, in order, the entries that were folded
OptionsMatchTrace(opts, obj, typewise) ==
    IF MatchRaises(opts, obj) # {}
    THEN RaiseTrace(MatchRaises(opts, obj))
    ELSE FoldTrace(SortIf(~typewise, Collect(opts, Ancestry(obj.tp), obj, typewise)))

OptionsMatch(opts, obj, typewise) == OptionsMatchTrace(opts, obj, typewise).res

\* Spec.unwrap applied to the value of an outcome
UnwrapOutcome(r) == IF r.exc = "none" THEN Ok(unwrap(r.val)) ELSE r

\* Spec.match
SpecMatch(opts, obj, typewise) == UnwrapOutcome(OptionsMatch(opts, obj, typewise))

(***************************************************************************)
(* Patterns: a type, a Match on a type, or a Condition.                    *)
(***************************************************************************)
TypePattern(tp) == [pk |-> "type", type |-> tp]
MatchPattern(tp) == [pk |-> "Match", type |-> tp]
CondPattern(c) == [pk |-> "Condition", cond |-> c]

\* Spec.make_condition_from_pattern
make_condition_from_pattern(pattern) ==
    IF pattern.pk = "type" THEN IsInstance(pattern.type)
    ELSE IF pattern.pk = "Match" THEN IsInstance(pattern.type)
    ELSE pattern.cond

\* calling a wrapper type of the registry on a value
Call(w_type, value) ==
    IF w_type.tp = "type" THEN Wrap(w_type.name, value) ELSE value

\* Spec.add_pattern up to the store: WRAPPER_TYPES.match(value), then the
\* wrapper type applied to the value
\* WRAPPER_TYPES as the module creates it
InitRegistry ==
    [tp \in Types |->
        CASE tp = "object" ->
                <<[cond |-> IsInstance("object"), val |-> Wrap("LastSeenWins", Class("LastSeenWins"))]>>
          [] tp \in {"dict", "set"} ->
                <<[cond |-> IsInstance(tp), val |-> Wrap("LastSeenWins", Class("CopyUpdate"))]>>
          [] tp = "Wrapper" ->
                <<[cond |-> IsInstance("Wrapper"), val |-> Wrap("LastSeenWins", Identity)]>>
          [] OTHER -> <<>>]

CallOutcome(w_type, value) ==
    IF w_type.exc = "none" THEN Ok(Call(w_type.val, value)) ELSE w_type

\* a slip in add_pattern: the wrapper type is taken from the registry as the
\* module created it, not from the registry as it is now
WrapValueDefault(reg, value) == CallOutcome(SpecMatch(InitRegistry, value, FALSE), value)

WrapValue(reg, value) == CallOutcome(SpecMatch(reg, value, FALSE), value)

(***************************************************************************)
(* The inputs of the model.                                                *)
(***************************************************************************)
\* the most entries a Spec holds
MaxEntries == 2

\* instances of the classes of tests/conftest.py, dicts, an int
ObjA == Instance("A", {})
ObjA1 == Instance("A", {<<"a", 1>>})
ObjB == Instance("B", {})
ObjB1 == Instance("B", {<<"a", 1>>})
Objects == {ObjA, ObjA1, ObjB, ObjB1, PyDict({<<0, 1>>}), PyDict({}), PyInt(0)}

Comparisons ==
    {CompareAttr("A", "a", "gt", 0), CompareAttr("A", "b", "gt", -1),
     CompareAttr("B", "a", "gt", 0),
     CompareItem("dict", 0, "gt", 0), CompareItem("object", 0, "gt", 0)}

Patterns ==
    {TypePattern(tp) : tp \in {"object", "A", "B", "dict"}}
    \cup {MatchPattern(tp) : tp \in {"A", "B"}}
    \cup {CondPattern(c) : c \in Comparisons}

\* two mappings that disagree on key 1
Values == {PyDict({<<1, 1>>}), PyDict({<<1, 2>>, <<2, 2>>})}

(***************************************************************************)
(* The state: options is the Options of the Spec in use, registry the      *)
(* Options of WRAPPER_TYPES, out the last call and its outcome.            *)
(***************************************************************************)
Outcome(op, cond, arg, typewise, res, order) ==
    [op |-> op, cond |-> cond, arg |-> arg, typewise |-> typewise,
     exc |-> res.exc, val |-> res.val, order |-> order]

Init ==
    /\ options = EmptyOptions
    /\ registry = InitRegistry
    /\ out = Outcome("Spec", None, None, FALSE, Ok(None), <<>>)

\* Spec(): a fresh, empty specification
NewSpec ==
    /\ options' = EmptyOptions
    /\ out' = Outcome("Spec", None, None, FALSE, Ok(None), <<>>)
    /\ UNCHANGED registry

\* the outcome of a call that returns None unless r is an exception
Returns(r) == IF r.exc = "none" THEN Ok(None) ELSE r

\* self.options[cond] = w_type(value), unless the registry lookup raised
StoreWrapped(opts, cond, w) == IF w.exc = "none" THEN OptionsSet(opts, cond, w.val) ELSE opts

AddTo(cond, value, w) ==
    /\ Contains(options, cond) \/ OptionsLen(options) < MaxEntries
    /\ options' = StoreWrapped(options, cond, w)
    /\ out' = Outcome("add_pattern", cond, value, FALSE, Returns(w), <<>>)
    /\ UNCHANGED registry

\* Spec.add_pattern(pattern, value)
AddPattern(pattern, value) ==
    AddTo(make_condition_from_pattern(pattern), value, WrapValue(registry, value))

\* Spec.get_value(pattern): unwrap(self[pattern])
GetValue(pattern) ==
    /\ out' = Outcome("get_value", make_condition_from_pattern(pattern), None, FALSE,
                      UnwrapOutcome(OptionsGet(options, make_condition_from_pattern(pattern))),
                      <<>>)
    /\ UNCHANGED <<options, registry>>

\* Spec.__delitem__(pattern)
Delete(pattern) ==
    LET cond == make_condition_from_pattern(pattern)
    IN  /\ options' = IF Contains(options, cond) THEN OptionsDel(options, cond) ELSE options
        /\ out' = Outcome("delete", cond, None, FALSE,
                          IF Contains(options, cond) THEN Ok(None) ELSE Raise("KeyError"), <<>>)
        /\ UNCHANGED registry

\* Spec.match(obj, typewise=typewise)
MatchOutcome(obj, typewise, trace) ==
    Outcome("match", None, obj, typewise, UnwrapOutcome(trace.res), trace.order)

MatchWith(obj, typewise, trace) ==
    /\ out' = MatchOutcome(obj, typewise, trace)
    /\ options' = StoreAfterFold(options, trace.order)
    /\ UNCHANGED registry

Match(obj, typewise) == MatchWith(obj, typewise, OptionsMatchTrace(options, obj, typewise))

\* WRAPPER_TYPES[list] = Concat, which is WRAPPER_TYPES.add_pattern(list, Concat)
RegisterAs(cond, value, w) ==
    /\ registry' = StoreWrapped(registry, cond, w)
    /\ out' = Outcome("register", cond, value, FALSE, Returns(w), <<>>)
    /\ UNCHANGED options

Register ==
    RegisterAs(make_condition_from_pattern(TypePattern("list")), Class("Concat"),
               WrapValue(registry, Class("Concat")))

\* del WRAPPER_TYPES[list]
UnregisterCond(cond) ==
    /\ registry' = IF Contains(registry, cond) THEN OptionsDel(registry, cond) ELSE registry
    /\ out' = Outcome("unregister", cond, None, FALSE,
                      IF Contains(registry, cond) THEN Ok(None) ELSE Raise("KeyError"), <<>>)
    /\ UNCHANGED options

Unregister == UnregisterCond(make_condition_from_pattern(TypePattern("list")))

Next ==
    \/ NewSpec
    \/ \E pattern \in Patterns, value \in Values : AddPattern(pattern, value)
    \/ \E pattern \in Patterns : GetValue(pattern)
    \/ \E pattern \in Patterns : Delete(pattern)
    \/ \E obj \in Objects, typewise \in BOOLEAN : Match(obj, typewise)

Spec == Init /\ [][Next]_vars

(***************************************************************************)
(* The same operations on values of every kind, with the registry          *)
(* changing: patterns on the chain object, A, B, so that values of several *)
(* levels are folded.                                                      *)
(***************************************************************************)
WrapObjects == {Instance("object", {}), ObjA, ObjB}

WrapPatterns == {TypePattern(tp) : tp \in {"object", "A", "B"}}

WrapValues ==
    {PyDict({<<1, 1>>}), PyDict({<<1, 2>>, <<2, 2>>}), PySet({1}),
     Wrap("LastSeenWins", PySet({2})),
     PyList(<<0, 1>>), PyList(<<2, 3>>), PyStr(<<110>>)}

NextWrap ==
    \/ NewSpec
    \/ \E pattern \in WrapPatterns, value \in WrapValues : AddPattern(pattern, value)
    \/ \E pattern \in WrapPatterns : GetValue(pattern)
    \/ \E pattern \in WrapPatterns : Delete(pattern)
    \/ \E obj \in WrapObjects, typewise \in BOOLEAN : Match(obj, typewise)
    \/ Register
    \/ Unregister

SpecWrap == Init /\ [][NextWrap]_vars

(***************************************************************************)
(* Properties.                                                             *)
(***************************************************************************)
ProperAncestor(t, u) == t \in MroSet(u) /\ t # u

\* cond.match(obj) returned true
Satisfied(c, obj) == CondMatch(c, obj).exc = "none" /\ CondMatch(c, obj).val

\* the conditions stored under a type of obj's ancestry that obj satisfies
SatisfiedConds(opts, obj) ==
    {e.cond : e \in {x \in UNION {Range(opts[tp]) : tp \in MroSet(obj.tp)} :
                        Satisfied(x.cond, obj)}}

Folded == out.op = "match" /\ out.exc = "none"
Last(s) == s[Len(s)]

\* C1: in default mode every satisfied condition is folded, the value of every
\* IsInstance before the value of every Comparison, whatever types they are
\* bound to; when a Comparison is satisfied its value is combined last and its
\* keys carry its values in the result.
C1_TypeBeforeComparison ==
    (Folded /\ ~out.typewise) =>
        /\ {e.cond : e \in Range(out.order)} = SatisfiedConds(options, out.arg)
        /\ \A i, j \in 1..Len(out.order) :
              (out.order[i].cond.kind = "IsInstance" /\ IsComparison(out.order[j].cond))
                  => i < j
        /\ (\E e \in Range(out.order) : IsComparison(e.cond)) =>
              /\ IsComparison(Last(out.order).cond)
              /\ Last(out.order).val.obj.map \subseteq out.val.map

\* a comparison bound to A and the type condition of B, added in either
\* order, both match a B: the comparison's value wins on key 1
C1_Witness ==
    /\ Folded /\ ~out.typewise
    /\ out.arg = ObjB1
    /\ options["A"] = <<[cond |-> CompareAttr("A", "a", "gt", 0),
                         val |-> Wrap("CopyUpdate", PyDict({<<1, 1>>}))]>>
    /\ out.order = <<[cond |-> IsInstance("B"),
                      val |-> Wrap("CopyUpdate", PyDict({<<1, 2>>, <<2, 2>>}))],
                     options["A"][1]>>
    /\ out.val = PyDict({<<1, 1>>, <<2, 2>>})

\* C2: with typewise=true the satisfied conditions are folded level by level,
\* those of a more general type before those of a more specific type, and
\* within one level IsInstance before Comparison; the value combined last,
\* of the most specific level, carries its keys into the result.
C2_Typewise ==
    (Folded /\ out.typewise) =>
        /\ {e.cond : e \in Range(out.order)} = SatisfiedConds(options, out.arg)
        /\ \A i, j \in 1..Len(out.order) :
              ProperAncestor(out.order[i].cond.type, out.order[j].cond.type) => i < j
        /\ \A i, j \in 1..Len(out.order) :
              (/\ out.order[i].cond.type = out.order[j].cond.type
               /\ out.order[i].cond.kind = "IsInstance"
               /\ IsComparison(out.order[j].cond)) => i < j
        /\ Last(out.order).val.obj.map \subseteq out.val.map

\* the type condition of B is folded after the comparison bound to A and
\* overrides it
C2_Witness ==
    /\ Folded /\ out.typewise
    /\ out.arg = ObjB1
    /\ out.order = <<[cond |-> CompareAttr("A", "a", "gt", 0),
                      val |-> Wrap("CopyUpdate", PyDict({<<1, 1>>}))],
                     [cond |-> IsInstance("B"),
                      val |-> Wrap("CopyUpdate", PyDict({<<1, 2>>, <<2, 2>>}))]>>
    /\ out.val = PyDict({<<1, 2>>, <<2, 2>>})

\* C3: an IsInstance on a proper ancestor is below the IsInstance on the
\* descendant and not the other way round; in both modes the ancestor's value
\* is folded first, and when only type conditions match, the value of the
\* most specific type carries its keys into the result.
C3_AncestorFirst ==
    /\ \A t, u \in Types :
          ProperAncestor(t, u) =>
              Lt(IsInstance(t), IsInstance(u)) /\ ~Lt(IsInstance(u), IsInstance(t))
    /\ Folded =>
          /\ \A i, j \in 1..Len(out.order) :
                (/\ out.order[i].cond.kind = "IsInstance"
                 /\ out.order[j].cond.kind = "IsInstance"
                 /\ ProperAncestor(out.order[i].cond.type, out.order[j].cond.type)) => i < j
          /\ (\A e \in Range(out.order) : e.cond.kind = "IsInstance") =>
                /\ \A e \in Range(out.order) :
                      Last(out.order).cond.type \notin MroSet(e.cond.type) \ {e.cond.type}
                /\ Last(out.order).val.obj.map \subseteq out.val.map

\* {A: {1: 1}, B: {1: 2, 2: 2}} matched on a B yields B's value
C3_Witness ==
    /\ Folded
    /\ out.arg = ObjB
    /\ out.order = <<[cond |-> IsInstance("A"),
                      val |-> Wrap("CopyUpdate", PyDict({<<1, 1>>}))],
                     [cond |-> IsInstance("B"),
                      val |-> Wrap("CopyUpdate", PyDict({<<1, 2>>, <<2, 2>>}))]>>
    /\ out.val = PyDict({<<1, 2>>, <<2, 2>>})

\* C4: match raises NoMatchError exactly when obj satisfies no condition
\* stored under a type of its ancestry.
C4_NoMatchIffNothingSatisfied ==
    out.op = "match" =>
        (out.exc = "NoMatchError" <=> SatisfiedConds(options, out.arg) = {})

\* the bucket of cond's type without the entry of cond
Without(bucket, cond) == SelectSeq(bucket, LAMBDA e : ~CondEq(e.cond, cond))

DeletedExactly(cond) ==
    IF Contains(options, cond)
    THEN /\ out'.exc = "none"
         /\ options' = [tp \in Types |-> Without(options[tp], cond)]
         /\ OptionsLen(options') = OptionsLen(options) - 1
         /\ UnwrapOutcome(OptionsGet(options', cond)).exc = "KeyError"
         /\ \A obj \in Objects, typewise \in BOOLEAN :
               \A e \in Range(OptionsMatchTrace(options', obj, typewise).order) :
                  ~CondEq(e.cond, cond)
    ELSE out'.exc = "KeyError" /\ options' = options

\* C6: deleting a stored pattern removes exactly its entry (the others keep
\* their values and their order), after which its lookup raises KeyError and
\* no match folds it; deleting or looking up a pattern that is not stored
\* raises KeyError and leaves the store as it was.
C6_DeleteExactly ==
    [][/\ out'.op = "delete" => DeletedExactly(out'.cond)
       /\ out'.op = "get_value" =>
             /\ options' = options
             /\ ~Contains(options, out'.cond) => out'.exc = "KeyError"]_vars

\* a pattern was deleted from a bucket of two: the other entry is left
C6_Witness ==
    /\ out.op = "delete" /\ out.exc = "none"
    /\ out.cond = CompareAttr("A", "a", "gt", 0)
    /\ Len(options["A"]) = 1
    /\ options["A"][1].cond = IsInstance("A")

\* C7: a stored Comparison whose characteristic obj cannot supply does not
\* match and does not make match raise.
C7_ComparisonNeverRaises ==
    out.op = "match" =>
        \A e \in UNION {Range(options[tp]) : tp \in MroSet(out.arg.tp)} :
            (IsComparison(e.cond) /\ Retrieve(e.cond, out.arg).exc # "none") =>
                /\ CondMatch(e.cond, out.arg).exc = "none"
                /\ out.exc \in {"none", "NoMatchError"}

\* what get_value returns for a value given to add_pattern: the value, and
\* of a value that is a Wrapper instance its content
Content(value) == IF IsWrapper(value) THEN value.obj ELSE value

AddThenGet == 
    /\ out.op = "add_pattern" /\ out.exc = "none"
    /\ out'.op = "get_value" /\ CondEq(out'.cond, out.cond)

\* C5 as claimed: get_value after add_pattern returns the value added, also
\* when that value is a Wrapper instance.
C5_RoundTrip ==
    [][AddThenGet => (out'.exc = "none" /\ out'.val = out.arg)]_vars

\* C5: add_pattern stores one entry under the condition (an equal condition
\* is overwritten and the count does not grow, the other entries stay), no
\* other call than add and delete changes an entry, and get_value returns the
\* content of what is stored: the value added, or value.obj when the value
\* added is a Wrapper instance.
C5_RoundTripContent ==
    [][/\ AddThenGet => (out'.exc = "none" /\ out'.val = Content(out.arg))
       /\ (out'.op = "add_pattern" /\ out'.exc = "none") =>
             /\ Content(OptionsGet(options', out'.cond).val) = Content(out'.arg)
             /\ OptionsLen(options') =
                   OptionsLen(options) + (IF Contains(options, out'.cond) THEN 0 ELSE 1)
       /\ out'.op \in {"add_pattern", "delete"} =>
             \A e \in Entries(options) :
                ~CondEq(e.cond, out'.cond) => OptionsGet(options', e.cond) = Ok(e.val)
       /\ out'.op \in {"get_value", "match", "register", "unregister"} => options' = options
       /\ (out'.op = "get_value" /\ Contains(options, out'.cond)) =>
             (out'.exc = "none" /\ out'.val = Content(OptionsGet(options, out'.cond).val))]_vars

\* get_value of a pattern added with LastSeenWins({2}) returned {2}
C5_Witness ==
    /\ out.op = "get_value" /\ out.exc = "none"
    /\ OptionsGet(options, out.cond) = Ok(Wrap("LastSeenWins", PySet({2})))
    /\ out.val = PySet({2})

\* the accumulated value after the first k entries of the fold
Acc(order, k) == Reduce(order[1].val, SubSeq(order, 2, k))

\* the k-th value cannot be merged into the accumulated CopyUpdate
Unmergeable(order, k) ==
    /\ Acc(order, k - 1).exc = "none"
    /\ Acc(order, k - 1).val.tp = "CopyUpdate"
    /\ CopyUpdateOr(Acc(order, k - 1).val, order[k].val).exc = "NotImplemented"

\* C8 as claimed: a value that cannot be merged into the accumulated
\* CopyUpdate makes match raise TypeError.
C8_UnmergeableRaises ==
    out.op = "match" =>
        \A k \in 2..Len(out.order) : Unmergeable(out.order, k) => out.exc = "TypeError"

\* C8: when a value cannot be merged into the accumulated CopyUpdate, the
\* fold goes on with that value in place of the accumulated one if it is
\* wrapped in LastSeenWins (and match returns its content if it is the last),
\* and match raises TypeError if it is wrapped in anything else.
C8_UnmergeableReplacedOrRaises ==
    out.op = "match" =>
        \A k \in 2..Len(out.order) :
            Unmergeable(out.order, k) =>
                IF out.order[k].val.tp = "LastSeenWins"
                THEN /\ Acc(out.order, k) = Ok(out.order[k].val)
                     /\ k = Len(out.order) =>
                           (out.exc = "none" /\ out.val = out.order[k].val.obj)
                ELSE out.exc = "TypeError"

\* {object: {1: 1}, A: 'n'} matched on an A returns 'n'
C8_Witness ==
    /\ out.op = "match" /\ out.exc = "none"
    /\ Len(out.order) = 2
    /\ out.order[1].val = Wrap("CopyUpdate", PyDict({<<1, 1>>}))
    /\ out.order[2].val = Wrap("LastSeenWins", PyStr(<<110>>))
    /\ out.val = PyStr(<<110>>)

\* C9: a value given wrapped in LastSeenWins and folded last, after another
\* value, is the result of match.
C9_LastSeenAlwaysWins ==
    (/\ Folded
     /\ Len(out.order) >= 2
     /\ Last(out.order).val \in {v \in WrapValues : v.tp = "LastSeenWins"}) =>
        out.val = Last(out.order).val.obj

ListRegistered(reg) == Contains(reg, IsInstance("list"))

RECURSIVE ConcatAll(_)
ConcatAll(order) ==
    IF order = <<>> THEN <<>> ELSE Head(order).val.obj.seq \o ConcatAll(Tail(order))

\* C10: a list value is wrapped by the wrapper registered for list at the
\* time it is added, Concat while the registration is in force and
\* LastSeenWins before it and after it; register and unregister leave the
\* Specs that exist as they are; lists wrapped in LastSeenWins combine to the
\* last one and lists wrapped in Concat to their concatenation, whatever the
\* registry is when match is called; a successful unregister leaves the
\* registry as the module created it.
C10_RegistryAtInsertion ==
    [][/\ (out'.op = "add_pattern" /\ out'.arg.tp = "list") =>
             /\ out'.exc = "none"
             /\ OptionsGet(options', out'.cond) =
                   Ok(Wrap(IF ListRegistered(registry) THEN "Concat" ELSE "LastSeenWins",
                           out'.arg))
       /\ out'.op \in {"register", "unregister"} => options' = options
       /\ out'.op = "register" => ListRegistered(registry')
       /\ (out'.op = "unregister" /\ out'.exc = "none") => registry' = InitRegistry
       /\ (out'.op = "match" /\ out'.order # <<>>) =>
             /\ (\A e \in Range(out'.order) :
                    e.val.tp = "LastSeenWins" /\ e.val.obj.tp = "list") =>
                   (out'.exc = "none" /\ out'.val = Last(out'.order).val.obj)
             /\ (\A e \in Range(out'.order) : e.val.tp = "Concat") =>
                   (out'.exc = "none" /\ out'.val = PyList(ConcatAll(out'.order)))]_vars

\* a Spec built while Concat was registered for list still concatenates
\* after the registration is gone
C10_Witness ==
    /\ Folded
    /\ ~ListRegistered(registry)
    /\ Len(out.order) = 2
    /\ \A e \in Range(out.order) : e.val.tp = "Concat"
    /\ out.val = PyList(<<0, 1, 2, 3>>)

\* C11: match depends only on the stored entries, the object and the flag.
\* No call other than add and delete changes the store: match, the fold,
\* get_value, register and unregister leave every stored condition and every
\* stored wrapped value as they were, so every match (any object, either
\* flag) gives after the call what it gave before it; and a match repeated
\* on the same object with the same flag returns what it returned.
C11_MatchDeterministic ==
    [][/\ out'.op \in {"match", "get_value", "register", "unregister"} =>
             /\ options' = options
             /\ \A obj \in WrapObjects, typewise \in BOOLEAN :
                   SpecMatch(options', obj, typewise) = SpecMatch(options, obj, typewise)
       /\ out'.op = "match" =>
             /\ <<out'.exc, out'.val>> =
                   <<SpecMatch(options', out'.arg, out'.typewise).exc,
                     SpecMatch(options', out'.arg, out'.typewise).val>>
             /\ (out.op = "match" /\ out.arg = out'.arg /\ out.typewise = out'.typewise) =>
                   <<out'.exc, out'.val>> = <<out.exc, out.val>>]_vars

\* two mappings were merged for a B while the registry holds Concat for
\* list, and the first of them is in the store as it was added
C11_Witness ==
    /\ Folded
    /\ ListRegistered(registry)
    /\ out.arg = ObjB
    /\ Len(out.order) = 2
    /\ out.order[1] = [cond |-> IsInstance("object"), val |-> Wrap("CopyUpdate", PyDict({<<1, 1>>}))]
    /\ out.order[2].val = Wrap("CopyUpdate", PyDict({<<1, 2>>, <<2, 2>>}))
    /\ out.val = PyDict({<<1, 2>>, <<2, 2>>})
    /\ OptionsGet(options, IsInstance("object")) = Ok(Wrap("CopyUpdate", PyDict({<<1, 1>>})))

\* the conditions of the store
StoredConds == {e.cond : e \in Entries(options)}

\* C12: "<" on conditions is irreflexive (X < X is false for every condition,
\* also for an IsInstance) and antisymmetric (X < Y and Y < X never both
\* hold); checked on the conditions a Spec holds.
C12_StrictOrder ==
    \A X, Y \in StoredConds :
        /\ ~Lt(X, X)
        /\ ~(Lt(X, Y) /\ Lt(Y, X))

\* position of the last Comparison among the folded entries, 0 without one
LastComparison(order) ==
    IF \E i \in 1..Len(order) : IsComparison(order[i].cond)
    THEN CHOOSE i \in 1..Len(order) :
            /\ IsComparison(order[i].cond)
            /\ \A j \in (i + 1)..Len(order) : ~IsComparison(order[j].cond)
    ELSE 0

\* the keys of the values folded after position k
LaterKeys(order, k) == UNION {Keys(order[j].val.obj.map) : j \in (k + 1)..Len(order)}

\* C13: two Comparisons are peers, neither is below the other; in both modes
\* the satisfied Comparisons are folded in the order of the walk, the one
\* bound to a more general type first and, within one bucket, in the order
\* of insertion; the Comparison folded last (in default mode the last value
\* of the fold) carries its keys into the result unless a value folded after
\* it sets them.
C13_ComparisonsInCollectionOrder ==
    /\ \A c, d \in Comparisons : ~Lt(c, d) /\ ~Lt(d, c)
    /\ Folded =>
          /\ \A i, j \in 1..Len(out.order) :
                (i < j /\ IsComparison(out.order[i].cond) /\ IsComparison(out.order[j].cond)) =>
                    \/ ProperAncestor(out.order[i].cond.type, out.order[j].cond.type)
                    \/ /\ out.order[i].cond.type = out.order[j].cond.type
                       /\ IndexOf(options[out.order[i].cond.type], out.order[i].cond)
                             < IndexOf(options[out.order[j].cond.type], out.order[j].cond)
          /\ LastComparison(out.order) # 0 =>
                /\ ~out.typewise => LastComparison(out.order) = Len(out.order)
                /\ \A p \in out.order[LastComparison(out.order)].val.obj.map :
                      p[1] \notin LaterKeys(out.order, LastComparison(out.order))
                          => p \in out.val.map

\* two comparisons of the bucket of A are satisfied by a B: they are folded
\* as they were inserted and the second one wins on key 1
C13_Witness ==
    /\ Folded
    /\ out.arg = ObjB1
    /\ options["A"] = <<[cond |-> CompareAttr("A", "b", "gt", -1),
                         val |-> Wrap("CopyUpdate", PyDict({<<1, 2>>, <<2, 2>>}))],
                        [cond |-> CompareAttr("A", "a", "gt", 0),
                         val |-> Wrap("CopyUpdate", PyDict({<<1, 1>>}))]>>
    /\ out.order = options["A"]
    /\ out.val = PyDict({<<1, 1>>, <<2, 2>>})

====
